---- MODULE Spec2Model ----
(***************************************************************************)
(* Client-side result-fetching orchestrator of pyxis.                      *)
(*                                                                         *)
(* Spec      : one search PageWrapper (text, image or video) with its      *)
(*             page-1 useSWR hook, the reset and page-1 sync effects and   *)
(*             loadMore, across query changes.                             *)
(* SpecFirst : the same wrapper while its query never changes.             *)
(* SpecRetry : the page-1 retry chains in full, across query changes.      *)
(* SpecDedup : the page-1 key across query changes.                        *)
(* SpecSug   : the suggestion effect of SearchHeader / HomeSearchBar.      *)
(*                                                                         *)
(* Every await of the source is a suspension point: the code before and    *)
(* after it are different steps, and other handlers may run in between.    *)
(* React state updates of one handler / effect flush are one step.         *)
(* The providers.tsx revisions disagree on keepPreviousData; the hooks are *)
(* modelled with the options the wrappers pass themselves.                 *)
(***************************************************************************)
EXTENDS Integers, Sequences, FiniteSets, TLC

VARIABLES
    kind,           \* which wrapper: "text", "image", "video"
    query,          \* prop query (image: combinedSearchQuery)
    initialData,    \* prop data (server-side page 1) or NoData
    allResults, currentPage, hasMore, loadingMore, loadMoreError,
    retryCountRef, exhausted,
    cache,          \* SWR cache of the page-1 keys: key -> payload or NoData
    fetchSlot,      \* SWR FETCH[key]: the chain of the latest request of the key
    requests,       \* SWR page-1 requests in flight
    timers,         \* pending setTimeout(() => revalidate({retryCount}), 2000)
    loads,          \* loadMore calls in flight (async closures)
    gen,            \* number of query changes so far (identifies a render epoch)
    overlaps,       \* loadMore calls started while an earlier call was still running
    input, suggestions, richSuggestions, showSuggestions,
    debounce,       \* pending setTimeout(fetchSuggestions, 300): its captured query
    pairs,          \* fetchSuggestions calls in flight
    keyRequest,     \* the search parameters and page of the latest results fetch
    keyUrl,         \* the SWR key or URL built for it (<<>> for a null key)
    errorMessage,   \* prop errorMessage of the wrapper
    initialKeywords, initialInstantAnswer,  \* props of the side panel
    sideCache,      \* SWR cache of the autocomplete and instant keys
    sideRequests,   \* requests of the autocomplete and instant hooks in flight
    serverOutcomes, \* how the fetches of the latest server render ended
    renderFailed,   \* the page component threw: no wrapper is shown
    selectedIndex   \* image wrapper: index of the result in the side panel

pageVars == <<kind, query, initialData, allResults, currentPage, hasMore,
              loadingMore, loadMoreError, retryCountRef, exhausted, cache,
              fetchSlot, requests, timers, loads, gen, overlaps>>
sugVars == <<input, suggestions, richSuggestions, showSuggestions, debounce, pairs>>
keyVars == <<keyRequest, keyUrl>>
sideVars == <<errorMessage, initialKeywords, initialInstantAnswer, sideCache,
              sideRequests, serverOutcomes, renderFailed>>
panelVars == <<selectedIndex>>
vars == <<pageVars, sugVars, keyVars, sideVars, panelVars>>

----------------------------------------------------------------------------
(* Bounds of the model *)
MaxGen == 1         \* Spec: query changes explored
MaxGenRetry == 2    \* SpecRetry, SpecDedup: query changes explored
MaxOverlap == 1     \* loadMore calls started while an earlier call is still running
MaxChain == 1       \* Spec, SpecFirst, SpecDedup: failures of one page-1 retry chain explored
MaxInput == 2       \* SpecSug: characters of the search input
MaxPairs == 2       \* SpecSug: fetchSuggestions calls in flight at once
PageLen == 1        \* items of one result page
MaxGhost == 3       \* SpecGhost: characters of the search input
MaxKeyLen == 3      \* SpecKey: characters of the q and tags parameters
MaxKeyPage == 2     \* SpecKey: highest page number requested
MaxPanel == 3       \* SpecPanel: cards of the image list that are clicked

\* searchParams.tags: absent, or present with a value
NoTagsParam == [present |-> FALSE, value |-> <<>>]

Kinds == {"text", "image", "video"}
Queries == {"qa", "qb"}
HasMoreField == {"true", "false", "none"}   \* has_more of a page N response: true, false, absent
Page1Field == {"true", "false"}             \* has_more of a page-1 response

(* Program constants *)
TEXT_MAX_PAGES == 10
IMAGE_MAX_PAGES == 10
VIDEO_MAX_PAGES == 10
MAX_RETRIES == 20
RETRY_DELAY == 2000
maxRetries == 3
BACKOFF_BASE == 1000

MaxPages(k) ==
    IF k = "text" THEN TEXT_MAX_PAGES
    ELSE IF k = "image" THEN IMAGE_MAX_PAGES ELSE VIDEO_MAX_PAGES

----------------------------------------------------------------------------
(* Payloads: an APIResponse is identified by query, page, where it came    *)
(* from (server render "ssr" or client fetch "api") and its has_more field *)
\* FETCH[key] is absent
NoFetch == -1

NoData == [q |-> "", page |-> 0, src |-> "none", has_more |-> "none"]
Payload(q, p, s, hm) == [q |-> q, page |-> p, src |-> s, has_more |-> hm]

\* data.results || []
Results(d) ==
    IF d = NoData THEN <<>>
    ELSE [n \in 1..PageLen |->
            [q |-> d.q, p |-> d.page, n |-> n, src |-> d.src, of |-> d.has_more]]

\* data.has_more ?? true
HasMoreOfDefaultTrue(d) == d.has_more # "false"

\* data.has_more ?? false
HasMoreOf(d) == d.has_more = "true"

\* what useSWR returns for the current key: cached data, else fallbackData
SwrData(c, q, init) == IF c[q] # NoData THEN c[q] ELSE init

showLoadingState == SwrData(cache, query, initialData) = NoData /\ ~exhausted
\* a fatal state that looks at the retry budget alone
showFatalErrorIgnoresData == exhausted
showFatalError == exhausted /\ SwrData(cache, query, initialData) = NoData

----------------------------------------------------------------------------
TypeOK ==
    /\ kind \in Kinds
    /\ query \in Queries
    /\ currentPage \in Nat
    /\ hasMore \in BOOLEAN /\ loadingMore \in BOOLEAN
    /\ loadMoreError \in BOOLEAN /\ exhausted \in BOOLEAN
    /\ retryCountRef \in 0..MAX_RETRIES
    /\ gen \in Nat
    /\ overlaps \in 0..MaxOverlap

InitPage ==
    /\ kind \in Kinds
    /\ query = "qa"
    /\ initialData \in {NoData} \cup {Payload(query, 1, "ssr", hm) : hm \in Page1Field}
    /\ allResults = Results(initialData)
    /\ currentPage = 1
    /\ hasMore = HasMoreOf(initialData)
    /\ loadingMore = FALSE
    /\ loadMoreError = FALSE
    /\ retryCountRef = 0
    /\ exhausted = FALSE
    /\ cache = [k \in Queries |-> NoData]
    \* revalidateOnMount: !initialData
    /\ IF initialData = NoData
       THEN /\ requests = {[key |-> query, retryCount |-> 0, gen |-> 0]}
            /\ fetchSlot = [k \in Queries |-> IF k = query THEN 0 ELSE NoFetch]
       ELSE /\ requests = {}
            /\ fetchSlot = [k \in Queries |-> NoFetch]
    /\ timers = {}
    /\ loads = {}
    /\ gen = 0
    /\ overlaps = 0

\* the search box after mount: empty input, the effect has set its first timer
InitSug ==
    /\ input = <<>>
    /\ suggestions = <<>>
    /\ richSuggestions = <<>>
    /\ showSuggestions = FALSE
    /\ debounce = [on |-> TRUE, q |-> <<>>]
    /\ pairs = {}

\* no results page has built a key yet
InitKey ==
    /\ keyRequest = [type |-> "text", q |-> <<>>, tags |-> NoTagsParam, page |-> 1]
    /\ keyUrl = <<>>

\* the props and hooks of the side panel, followed in SpecSide only: here no
\* related keywords, no instant answer and no request for them
InitSide ==
    /\ errorMessage = "none"
    /\ initialKeywords = <<>>
    /\ initialInstantAnswer = "none"
    /\ sideCache = [k \in Queries |-> [instant |-> "none", autocomplete |-> "none"]]
    /\ sideRequests = {}
    /\ serverOutcomes = [search |-> "error", instant |-> "error",
                         autocomplete |-> "error"]
    /\ renderFailed = FALSE

\* useState<number | null>(null): no result is selected, the panel is closed
NoSelection == -1
InitPanel == selectedIndex = NoSelection

Init == InitPage /\ InitSug /\ InitKey /\ InitSide /\ InitPanel

----------------------------------------------------------------------------
(* useSWR(page-1 key, fetcher, {...}) *)

\* a revalidation that starts a network request for the key and takes the
\* key's FETCH entry; g is the render of the key that began the retry chain
StartRequest(key, rc, g) ==
    /\ requests' = requests \cup {[key |-> key, retryCount |-> rc, gen |-> g]}
    /\ fetchSlot' = [fetchSlot EXCEPT ![key] = g]

\* revalidation on mount / key change that never joins a request
SoftRevalidateNoDedupe(key, g) == StartRequest(key, 0, g)

\* revalidation on mount / key change, deduped: within dedupingInterval of a
\* request of the same key it joins that request instead of fetching
SoftRevalidate(key, g) ==
    IF fetchSlot[key] # NoFetch
    THEN UNCHANGED <<requests, fetchSlot>>
    ELSE StartRequest(key, 0, g)

\* onErrorRetry: (_, _key, _config, revalidate, { retryCount }) => ...
OnErrorRetry(key, retryCount, g) ==
    /\ retryCountRef' = retryCount
    /\ IF retryCount >= MAX_RETRIES
       THEN /\ exhausted' = TRUE
            /\ timers' = timers
       ELSE /\ exhausted' = exhausted
            /\ timers' = timers \cup
                 {[key |-> key, retryCount |-> retryCount, gen |-> g,
                   delay |-> RETRY_DELAY]}

\* page-1 sync effect, run when the data returned by useSWR changes to d
SyncPage1(d) ==
    IF kind = "image"
    THEN /\ allResults' = Results(d)
         /\ hasMore' = HasMoreOf(d)
         /\ currentPage' = 1
    ELSE /\ currentPage' = currentPage
         /\ IF currentPage = 1
            THEN /\ allResults' = Results(d)
                 /\ hasMore' = HasMoreOf(d)
            ELSE UNCHANGED <<allResults, hasMore>>

\* the reset effect without setCurrentPage(1)
ResetEffectKeepsPage(init, d) ==
    /\ retryCountRef' = 0
    /\ exhausted' = FALSE
    /\ allResults' = IF d # NoData THEN Results(d) ELSE Results(init)
    /\ currentPage' = currentPage
    /\ hasMore' = IF d # NoData THEN HasMoreOf(d) ELSE HasMoreOf(init)
    /\ loadingMore' = FALSE
    /\ loadMoreError' = FALSE

\* reset effect followed, in the same flush, by the page-1 sync effect:
\* d is what useSWR returns for the new key
ResetEffect(init, d) ==
    /\ retryCountRef' = 0
    /\ exhausted' = FALSE
    /\ allResults' = IF d # NoData THEN Results(d) ELSE Results(init)
    /\ currentPage' = 1
    /\ hasMore' = IF d # NoData THEN HasMoreOf(d) ELSE HasMoreOf(init)
    /\ loadingMore' = FALSE
    /\ loadMoreError' = FALSE

\* the page is re-rendered for another query: new props query and data
Navigate(q, init) ==
    /\ q # query
    /\ query' = q
    /\ initialData' = init
    /\ gen' = gen + 1
    /\ ResetEffect(init, SwrData(cache, q, init))
    /\ IF SwrData(cache, q, init) = NoData
       THEN SoftRevalidate(q, gen + 1)
       ELSE UNCHANGED <<requests, fetchSlot>>
    /\ UNCHANGED <<kind, cache, timers, loads, overlaps>>

\* the fetcher of a page-1 request resolves with a payload
RequestSuccess(r, hm) ==
    /\ r \in requests
    /\ requests' = requests \ {r}
    /\ LET d == Payload(r.key, 1, "api", hm)
           applied == fetchSlot[r.key] = r.gen
       IN /\ cache' = IF applied THEN [cache EXCEPT ![r.key] = d] ELSE cache
          /\ IF applied /\ r.key = query /\ d # SwrData(cache, query, initialData)
             THEN SyncPage1(d)
             ELSE UNCHANGED <<allResults, hasMore, currentPage>>
    /\ UNCHANGED <<kind, query, initialData, loadingMore, loadMoreError,
                   retryCountRef, exhausted, fetchSlot, timers, loads, gen, overlaps>>

\* the fetcher of a page-1 request throws (network error or !res.ok)
RequestFailure(r) ==
    /\ r \in requests
    /\ requests' = requests \ {r}
    /\ fetchSlot' = IF fetchSlot[r.key] = r.gen
                    THEN [fetchSlot EXCEPT ![r.key] = NoFetch] ELSE fetchSlot
    /\ IF r.key = query
       THEN OnErrorRetry(r.key, r.retryCount + 1, r.gen)
       ELSE UNCHANGED <<retryCountRef, exhausted, timers>>
    /\ UNCHANGED <<kind, query, initialData, allResults, currentPage, hasMore,
                   loadingMore, loadMoreError, cache, loads, gen, overlaps>>

\* the 2 s timer of onErrorRetry fires: revalidate({ retryCount }); it reaches
\* the hook only while the hook is on that key
TimerFire(t) ==
    /\ t \in timers
    /\ timers' = timers \ {t}
    /\ IF t.key = query
       THEN StartRequest(t.key, t.retryCount, t.gen)
       ELSE UNCHANGED <<requests, fetchSlot>>
    /\ UNCHANGED <<kind, query, initialData, allResults, currentPage, hasMore,
                   loadingMore, loadMoreError, retryCountRef, exhausted, cache,
                   loads, gen, overlaps>>

\* dedupingInterval after a successful request its FETCH entry is dropped
DedupExpire(key) ==
    /\ fetchSlot[key] # NoFetch
    /\ \A r \in requests : ~(r.key = key /\ r.gen = fetchSlot[key])
    /\ fetchSlot' = [fetchSlot EXCEPT ![key] = NoFetch]
    /\ UNCHANGED <<kind, query, initialData, allResults, currentPage, hasMore,
                   loadingMore, loadMoreError, retryCountRef, exhausted, cache,
                   requests, timers, loads, gen, overlaps>>

----------------------------------------------------------------------------
(* loadMore *)

\* if (currentPage > MAX_PAGES || loadingMore || !hasMore) return;
LoadMoreGuardOnCurrentPage(k, cp, lm, hm) == ~(cp > MaxPages(k) \/ lm \/ ~hm)

\* if (nextPage > MAX_PAGES || loadingMore || !hasMore) return;
LoadMoreGuard(k, cp, lm, hm) == ~(cp + 1 > MaxPages(k) \/ lm \/ ~hm)

\* if (attempt > maxRetries) in the catch block
AttemptsOffByOne(k) == IF k = "video" THEN 1 ELSE maxRetries + 1

\* attempts of one loadMore call: the retry loop of text and image, the
\* single try of video
Attempts(k) == IF k = "video" THEN 1 ELSE maxRetries

\* setTimeout(resolve, 1000 * Math.pow(2, attempt))
Backoff(attempt) == BACKOFF_BASE * 2^attempt

\* setAllResults((prev) => [...newResults, ...prev])
Prepended(prev, newResults) == newResults \o prev

\* setAllResults((prev) => [...prev, ...newResults])
Appended(prev, newResults) == prev \o newResults

\* setHasMore(...) of a loaded page
NextHasMore(k, d, nextPage) ==
    IF k = "text" THEN HasMoreOf(d) /\ nextPage < TEXT_MAX_PAGES ELSE HasMoreOf(d)

FreeLoadIds == (1..(MaxOverlap + 1)) \ {l.id : l \in loads}

LoadMore ==
    /\ LoadMoreGuard(kind, currentPage, loadingMore, hasMore)
    /\ loads = {} \/ overlaps < MaxOverlap
    /\ overlaps' = IF loads = {} THEN overlaps ELSE overlaps + 1
    /\ loadingMore' = TRUE
    /\ loadMoreError' = FALSE
    /\ loads' = loads \cup
         {[id |-> CHOOSE i \in FreeLoadIds : \A j \in FreeLoadIds : i <= j,
           gen |-> gen, q |-> query, nextPage |-> currentPage + 1,
           attempt |-> 0, sent |-> 1, pc |-> "fetch", wait |-> 0]}
    /\ UNCHANGED <<kind, query, initialData, allResults, currentPage, hasMore,
                   retryCountRef, exhausted, cache, fetchSlot, requests, timers, gen>>

\* await fetch(...) and await res.json() resolve: the page is applied and the
\* loop exits (nothing of the closure changes between the two awaits)
LoadApplied(l, hm) ==
    /\ l \in loads
    /\ l.pc = "fetch"
    /\ loads' = loads \ {l}
    /\ LET data == Payload(l.q, l.nextPage, "api", hm)
       IN /\ allResults' = Appended(allResults, Results(data))
          /\ currentPage' = l.nextPage
          /\ hasMore' = NextHasMore(kind, data, l.nextPage)
    /\ loadingMore' = FALSE
    /\ UNCHANGED <<kind, query, initialData, loadMoreError, retryCountRef,
                   exhausted, cache, fetchSlot, requests, timers, gen, overlaps>>

\* the catch block raising the page-1 fatal flag on its last attempt
LoadFailedFatal(l) ==
    /\ l \in loads
    /\ l.pc = "fetch"
    /\ IF l.attempt + 1 = Attempts(kind)
       THEN /\ loads' = loads \ {l}
            /\ loadMoreError' = TRUE
            /\ loadingMore' = FALSE
            /\ exhausted' = TRUE
       ELSE /\ loads' = (loads \ {l}) \cup
                 {[l EXCEPT !.attempt = l.attempt + 1, !.pc = "wait",
                            !.wait = Backoff(l.attempt + 1)]}
            /\ UNCHANGED <<loadMoreError, loadingMore, exhausted>>
    /\ UNCHANGED <<kind, query, initialData, allResults, currentPage, hasMore,
                   retryCountRef, cache, fetchSlot, requests, timers, gen, overlaps>>

\* catch: the fetch rejects, the response is not ok, or its body does not parse
LoadFailed(l) ==
    /\ l \in loads
    /\ l.pc = "fetch"
    /\ IF l.attempt + 1 = Attempts(kind)
       THEN /\ loads' = loads \ {l}
            /\ loadMoreError' = TRUE
            /\ loadingMore' = FALSE
       ELSE /\ loads' = (loads \ {l}) \cup
                 {[l EXCEPT !.attempt = l.attempt + 1, !.pc = "wait",
                            !.wait = Backoff(l.attempt + 1)]}
            /\ UNCHANGED <<loadMoreError, loadingMore>>
    /\ UNCHANGED <<kind, query, initialData, allResults, currentPage, hasMore,
                   retryCountRef, exhausted, cache, fetchSlot, requests, timers, gen, overlaps>>

\* the backoff wait is over: the loop issues the next fetch
LoadRetry(l) ==
    /\ l \in loads
    /\ l.pc = "wait"
    /\ loads' = (loads \ {l}) \cup
         {[l EXCEPT !.pc = "fetch", !.wait = 0, !.sent = l.sent + 1]}
    /\ UNCHANGED <<kind, query, initialData, allResults, currentPage, hasMore,
                   loadingMore, loadMoreError, retryCountRef, exhausted, cache,
                   fetchSlot, requests, timers, gen, overlaps>>

----------------------------------------------------------------------------
(* Suggestions: the fetchSuggestions effect of the search box *)

Alphabet == {"a", "b", " "}
Inputs == UNION {[1..n -> Alphabet] : n \in 0..MaxInput}

RECURSIVE TrimLeft(_)
TrimLeft(str) ==
    IF str # <<>> /\ Head(str) = " " THEN TrimLeft(Tail(str)) ELSE str
RECURSIVE TrimRight(_)
TrimRight(str) ==
    IF str # <<>> /\ str[Len(str)] = " "
    THEN TrimRight(SubSeq(str, 1, Len(str) - 1)) ELSE str
\* query.trim()
Trim(str) == TrimRight(TrimLeft(str))

\* what the autocomplete endpoint answers for q, and the valid pages of the
\* encyclopedia answer for q
KeywordsFor(q) == <<q \o <<"a">>, q \o <<"b">>>>
RichFor(q) == <<[title |-> q, description |-> "Encyclopedia entry"]>>

\* textPromise: res.ok ? res.json() : { suggestions: [] }, catch -> { suggestions: [] }
TextSettled(q, outcome) == IF outcome = "ok" THEN KeywordsFor(q) ELSE <<>>
\* wikiPromise: res.json(), catch -> {}; then the pages with thumbnail or description
WikiSettled(q, outcome) == IF outcome = "ok" THEN RichFor(q) ELSE <<>>

\* a promise that has not settled, and one that settled with a list
Pending == [done |-> FALSE, list |-> <<>>]
Settled(list) == [done |-> TRUE, list |-> list]

\* onChange with an effect that has no cleanup: a pending timer stays and
\* runs the fetchSuggestions of the render that set it
TypeKeepsTimer(v) ==
    /\ v # input
    /\ input' = v
    /\ showSuggestions' = TRUE
    /\ debounce' = IF debounce.on THEN debounce ELSE [on |-> TRUE, q |-> v]
    /\ UNCHANGED <<suggestions, richSuggestions, pairs>>

\* onChange: setQuery(value), setShowSuggestions(true); the effect clears the
\* pending timer and sets a new one
Type(v) ==
    /\ v # input
    /\ input' = v
    /\ showSuggestions' = TRUE
    /\ debounce' = [on |-> TRUE, q |-> v]
    /\ UNCHANGED <<suggestions, richSuggestions, pairs>>

\* the 300 ms timer fires: fetchSuggestions() of the render that set it
DebounceFire ==
    /\ debounce.on
    /\ debounce' = [debounce EXCEPT !.on = FALSE]
    /\ IF Len(Trim(debounce.q)) < 2
       THEN /\ suggestions' = <<>>
            /\ richSuggestions' = <<>>
            /\ pairs' = pairs
       ELSE /\ Cardinality(pairs) < MaxPairs
            /\ pairs' = pairs \cup {[q |-> debounce.q, text |-> Pending, wiki |-> Pending]}
            /\ UNCHANGED <<suggestions, richSuggestions>>
    /\ UNCHANGED <<input, showSuggestions>>

\* a publication that gives up both lists when either source came back empty
PublishAllOrNothing(textList, wikiList) ==
    /\ suggestions' = IF wikiList = <<>> THEN <<>> ELSE textList
    /\ richSuggestions' = IF textList = <<>> THEN <<>> ELSE wikiList

\* after await Promise.all([textPromise, wikiPromise]): both lists are set
Publish(textList, wikiList) ==
    /\ suggestions' = textList
    /\ richSuggestions' = wikiList

\* the autocomplete fetch of a pair settles
TextSettle(p, outcome) ==
    /\ p \in pairs
    /\ p.text = Pending
    /\ IF p.wiki = Pending
       THEN /\ pairs' = (pairs \ {p}) \cup {[p EXCEPT !.text = Settled(TextSettled(p.q, outcome))]}
            /\ UNCHANGED <<suggestions, richSuggestions>>
       ELSE /\ pairs' = pairs \ {p}
            /\ Publish(TextSettled(p.q, outcome), p.wiki.list)
    /\ UNCHANGED <<input, showSuggestions, debounce>>

\* the encyclopedia fetch of a pair settles
WikiSettle(p, outcome) ==
    /\ p \in pairs
    /\ p.wiki = Pending
    /\ IF p.text = Pending
       THEN /\ pairs' = (pairs \ {p}) \cup {[p EXCEPT !.wiki = Settled(WikiSettled(p.q, outcome))]}
            /\ UNCHANGED <<suggestions, richSuggestions>>
       ELSE /\ pairs' = pairs \ {p}
            /\ Publish(p.text.list, WikiSettled(p.q, outcome))
    /\ UNCHANGED <<input, showSuggestions, debounce>>

NextSug ==
    /\ \/ \E v \in Inputs : Type(v)
       \/ DebounceFire
       \/ \E p \in pairs, o \in {"ok", "notok", "error"} : TextSettle(p, o)
       \/ \E p \in pairs, o \in {"ok", "notok", "error"} : WikiSettle(p, o)
    /\ UNCHANGED <<pageVars, keyVars, sideVars, panelVars>>

\* the search box is the same component on every results page
InitBox == Init /\ kind = "text" /\ initialData = NoData

SpecSug == InitBox /\ [][NextSug]_vars

\* handleSearch by the form's onSubmit: finalQuery is the input; the lists are
\* cleared and the dropdown hidden before router.push. The effect on
\* searchParams that follows the push clears what is cleared already
handleSearch ==
    /\ Trim(input) # <<>>
    /\ showSuggestions' = FALSE
    /\ suggestions' = <<>>
    /\ richSuggestions' = <<>>
    /\ UNCHANGED <<input, debounce, pairs>>

\* the effect on [searchParams] after a navigation the box did not start
\* (back, forward, a link): setShowSuggestions(false), setSuggestions([])
SearchParamsChanged ==
    /\ showSuggestions' = FALSE
    /\ suggestions' = <<>>
    /\ UNCHANGED <<input, richSuggestions, debounce, pairs>>

(* SpecNav: the search box with submissions and navigations *)
NextNav ==
    /\ \/ \E v \in Inputs : Type(v)
       \/ DebounceFire
       \/ \E p \in pairs, o \in {"ok", "notok", "error"} : TextSettle(p, o)
       \/ \E p \in pairs, o \in {"ok", "notok", "error"} : WikiSettle(p, o)
       \/ handleSearch
       \/ SearchParamsChanged
    /\ UNCHANGED <<pageVars, keyVars, sideVars, panelVars>>

SpecNav == InitBox /\ [][NextNav]_vars

(* SpecSugLive: the search box with the scheduling the browser guarantees:  *)
(* a timer that stays set fires. A fetch may stay pending for ever, so the  *)
(* settling of a promise carries no fairness.                               *)
SpecSugLive == InitBox /\ [][NextSug]_vars /\ WF_sugVars(DebounceFire)

----------------------------------------------------------------------------
(* Ghost text: the completion hint of the search box *)

GhostAlphabet == {"c", "a", "l", "C", " "}
GhostInputs == UNION {[1..n -> GhostAlphabet] : n \in 0..MaxGhost}

\* answers of the autocomplete endpoint held in suggestions
CatCarCap == <<<<"c", "a", "t">>, <<"c", "a", "r">>, <<"c", "a", "p">>>>
GhostLists ==
    {<<>>, CatCarCap, <<<<"C", "a", "t">>, <<"c", "a", "l">>>>,
     <<<<"c", "a">>, <<"c", "a", "t">>>>}

\* String.prototype.toLowerCase, startsWith and slice
LowerChar(c) == CASE c = "C" -> "c" [] OTHER -> c
ToLowerCase(str) == [i \in 1..Len(str) |-> LowerChar(str[i])]
StartsWith(str, prefix) ==
    Len(prefix) <= Len(str) /\ SubSeq(str, 1, Len(prefix)) = prefix
Slice(str, n) == IF n >= Len(str) THEN <<>> ELSE SubSeq(str, n + 1, Len(str))

\* ghostText with a case-sensitive startsWith
ghostTextCaseSensitive ==
    IF /\ showSuggestions
       /\ Len(suggestions) > 0
       /\ Trim(input) # <<>>
       /\ StartsWith(suggestions[1], input)
    THEN input \o Slice(suggestions[1], Len(input))
    ELSE <<>>

\* the value of the read-only ghost input
ghostText ==
    IF /\ showSuggestions
       /\ Len(suggestions) > 0
       /\ Trim(input) # <<>>
       /\ StartsWith(ToLowerCase(suggestions[1]), ToLowerCase(input))
    THEN input \o Slice(suggestions[1], Len(input))
    ELSE <<>>

\* the ghost input lies behind the actual input, whose text covers the first
\* characters of it: what is seen of it is what comes after the input
GhostHint == Slice(ghostText, Len(input))

\* mousedown or touchstart outside the box
ClickOutside ==
    /\ showSuggestions
    /\ showSuggestions' = FALSE
    /\ UNCHANGED <<input, suggestions, richSuggestions, debounce, pairs>>

\* onFocus of the input
Focus ==
    /\ ~showSuggestions
    /\ showSuggestions' = TRUE
    /\ UNCHANGED <<input, suggestions, richSuggestions, debounce, pairs>>

\* handleKeyDown, Tab: the top suggestion becomes the input; the effect sets
\* the timer of the new value
TabComplete ==
    /\ Len(suggestions) > 0
    /\ StartsWith(ToLowerCase(suggestions[1]), ToLowerCase(input))
    /\ suggestions[1] # input
    /\ input' = suggestions[1]
    /\ debounce' = [on |-> TRUE, q |-> suggestions[1]]
    /\ UNCHANGED <<suggestions, richSuggestions, showSuggestions, pairs>>

\* the box with an answer of the autocomplete endpoint on display
InitGhost ==
    /\ InitPage
    /\ InitPanel
    /\ InitKey
    /\ InitSide
    /\ kind = "text"
    /\ initialData = NoData
    /\ input \in GhostInputs
    /\ suggestions \in GhostLists
    /\ richSuggestions = <<>>
    /\ showSuggestions \in BOOLEAN
    /\ debounce = [on |-> FALSE, q |-> input]
    /\ pairs = {}

(* SpecGhost: the box between two answers; the input is edited, completed  *)
(* with Tab, and the dropdown closed and opened again.                     *)
NextGhost ==
    /\ \/ \E v \in GhostInputs : Type(v)
       \/ TabComplete
       \/ ClickOutside
       \/ Focus
    /\ UNCHANGED <<pageVars, keyVars, sideVars, panelVars>>

SpecGhost == InitGhost /\ [][NextGhost]_vars

----------------------------------------------------------------------------
\* query changes
Navigation ==
    /\ \/ \E q \in Queries, hm \in Page1Field : Navigate(q, Payload(q, 1, "ssr", hm))
       \/ \E q \in Queries : Navigate(q, NoData)

\* the page-1 request lifecycle of useSWR
SwrSteps ==
    \/ \E r \in requests, hm \in Page1Field : RequestSuccess(r, hm)
    \/ \E t \in timers : TimerFire(t)
    \/ \E k \in Queries : DedupExpire(k)

LoadSteps ==
    \/ LoadMore
    \/ \E l \in loads, hm \in HasMoreField : LoadApplied(l, hm)
    \/ \E l \in loads : LoadFailed(l)
    \/ \E l \in loads : LoadRetry(l)

(* Spec: the wrapper with loadMore; a page-1 retry chain is followed for   *)
(* its first MaxChain failures.                                            *)
NextPage ==
    \/ gen < MaxGen /\ Navigation
    \/ SwrSteps
    \/ \E r \in requests : r.retryCount < MaxChain /\ RequestFailure(r)
    \/ LoadSteps

Next == NextPage /\ UNCHANGED <<sugVars, keyVars, sideVars, panelVars>>

Spec == Init /\ [][Next]_vars

(* SpecFirst: the wrapper while its query prop never changes. *)
NextFirst ==
    /\ \/ SwrSteps
       \/ \E r \in requests : r.retryCount < MaxChain /\ RequestFailure(r)
       \/ LoadSteps
    /\ UNCHANGED <<sugVars, keyVars, sideVars, panelVars>>

SpecFirst == Init /\ [][NextFirst]_vars

(* SpecRetry: the page-1 retry chains in full (up to MAX_RETRIES), without *)
(* loadMore calls; loadMore reads and writes none of retryCountRef,        *)
(* exhausted, cache, fetchSlot, requests, timers.                          *)
NextRetry ==
    /\ \/ gen < MaxGenRetry /\ Navigation
       \/ SwrSteps
       \/ \E r \in requests : RequestFailure(r)
    /\ UNCHANGED <<sugVars, keyVars, sideVars, panelVars>>

SpecRetry == Init /\ [][NextRetry]_vars

(* SpecDedup: the page-1 key across MaxGenRetry query changes, each retry  *)
(* chain followed for its first MaxChain failures, without loadMore calls. *)
NextDedup ==
    /\ \/ gen < MaxGenRetry /\ Navigation
       \/ SwrSteps
       \/ \E r \in requests : r.retryCount < MaxChain /\ RequestFailure(r)
    /\ UNCHANGED <<sugVars, keyVars, sideVars, panelVars>>

SpecDedup == Init /\ [][NextDedup]_vars

(* SpecFatal: the wrapper while its query prop never changes, with the     *)
(* page-1 retry chain in full and loadMore calls.                          *)
NextFatal ==
    /\ \/ SwrSteps
       \/ \E r \in requests : RequestFailure(r)
       \/ LoadSteps
    /\ UNCHANGED <<sugVars, keyVars, sideVars, panelVars>>

SpecFatal == Init /\ [][NextFatal]_vars

----------------------------------------------------------------------------
(* Image side panel: selectedIndex of the image wrapper. In the other      *)
(* specifications no result is ever selected and selectedIndex stays null. *)

\* ImageResultsList renders its cards, and SidePanel reads results[index]
ListShown == ~showLoadingState /\ ~showFatalError /\ Len(allResults) > 0
PanelShown ==
    /\ ~showFatalError
    /\ selectedIndex # NoSelection
    /\ selectedIndex < Len(allResults)

\* onClick of card i: onSelect(i === selectedIndex ? null : i)
Select(i) ==
    /\ ListShown
    /\ i \in 0..(Len(allResults) - 1)
    /\ selectedIndex' = IF i = selectedIndex THEN NoSelection ELSE i

\* onPrev: setSelectedIndex((i) => (i !== null && i > 0 ? i - 1 : i))
onPrev ==
    /\ PanelShown
    /\ selectedIndex' = IF selectedIndex > 0 THEN selectedIndex - 1 ELSE selectedIndex

\* onNext: i !== null && i < allResults.length - 1 ? i + 1 : i
onNext ==
    /\ PanelShown
    /\ selectedIndex' = IF selectedIndex < Len(allResults) - 1
                        THEN selectedIndex + 1 ELSE selectedIndex

\* onClose: setSelectedIndex(null)
onClose ==
    /\ PanelShown
    /\ selectedIndex' = NoSelection

(* SpecPanel: the image wrapper with its side panel across MaxGenRetry      *)
(* query changes, while every fetch that settles succeeds.                 *)
InitImage == Init /\ kind = "image"

NextPanel ==
    /\ \/ \* the reset effect also calls setSelectedIndex(null)
          gen < MaxGenRetry /\ Navigation /\ selectedIndex' = NoSelection
       \/ (\E r \in requests, hm \in Page1Field : RequestSuccess(r, hm))
            /\ UNCHANGED panelVars
       \/ LoadMore /\ UNCHANGED panelVars
       \/ (\E l \in loads, hm \in HasMoreField : LoadApplied(l, hm))
            /\ UNCHANGED panelVars
       \/ (\E i \in 0..(MaxPanel - 1) : Select(i)) /\ UNCHANGED pageVars
       \/ onPrev /\ UNCHANGED pageVars
       \/ onNext /\ UNCHANGED pageVars
       \/ onClose /\ UNCHANGED pageVars
    /\ UNCHANGED <<sugVars, keyVars, sideVars>>

SpecPanel == InitImage /\ [][NextPanel]_vars

----------------------------------------------------------------------------
(* Request keys: the SWR keys and page-N URLs built by the wrappers *)

IMAGE_RESULTS_PER_PAGE == 20
VIDEO_RESULTS_PER_PAGE == 20

KeyAlphabet == {"a", "b", " "}
KeyQueries == UNION {[1..n -> KeyAlphabet] : n \in 0..MaxKeyLen}
TagsAlphabet == {"a", "b", ","}
TagsParams ==
    {NoTagsParam} \cup
    {[present |-> TRUE, value |-> v] :
        v \in UNION {[1..n -> TagsAlphabet] : n \in 0..MaxKeyLen}}

\* String.prototype.split(sep)
RECURSIVE Split(_, _)
Split(str, sep) ==
    IF \E i \in 1..Len(str) : str[i] = sep
    THEN LET i == CHOOSE k \in 1..Len(str) :
                    str[k] = sep /\ \A j \in 1..(k - 1) : str[j] # sep
         IN <<SubSeq(str, 1, i - 1)>> \o Split(SubSeq(str, i + 1, Len(str)), sep)
    ELSE <<str>>

\* Array.prototype.join(sep)
RECURSIVE Join(_, _)
Join(list, sep) ==
    IF list = <<>> THEN <<>>
    ELSE IF Len(list) = 1 THEN list[1]
    ELSE list[1] \o <<sep>> \o Join(Tail(list), sep)

\* encodeURIComponent: letters are kept, the others are percent-encoded
EncodeChar(c) ==
    CASE c = " " -> <<"%", "2", "0">>
      [] c = "," -> <<"%", "2", "C">>
      [] OTHER -> <<c>>
RECURSIVE encodeURIComponent(_)
encodeURIComponent(str) ==
    IF str = <<>> THEN <<>>
    ELSE EncodeChar(Head(str)) \o encodeURIComponent(Tail(str))

\* image/page.tsx: tagsParam ? tagsParam.split(',').filter(Boolean) : []
TagsOf(param) ==
    LET tagsParam == IF param.present THEN param.value ELSE <<>>
    IN IF tagsParam # <<>>
       THEN SelectSeq(Split(tagsParam, ","), LAMBDA t : t # <<>>)
       ELSE <<>>

\* [query, ...tags].join(" ").trim()
combinedSearchQuery(q, tags) == Trim(Join(<<q>> \o tags, " "))

\* the page-1 SWR keys; a null key is <<>>
textKey(q) ==
    IF q # <<>>
    THEN <<"/api/search?q=">> \o encodeURIComponent(q) \o <<"&type=text&page=", "1">>
    ELSE <<>>
imagesKey(combined) ==
    IF combined # <<>>
    THEN <<"/api/search?q=">> \o encodeURIComponent(combined) \o
         <<"&type=images&max_results=", ToString(IMAGE_RESULTS_PER_PAGE), "&page=", "1">>
    ELSE <<>>
videosKey(q) ==
    IF q # <<>>
    THEN <<"/api/search?q=">> \o encodeURIComponent(q) \o
         <<"&type=videos&max_results=", ToString(VIDEO_RESULTS_PER_PAGE), "&page=", "1">>
    ELSE <<>>

\* the URL fetched by loadMore for nextPage
LoadMoreUrl(type, q, nextPage) ==
    CASE type = "text" ->
           <<"/api/search?q=">> \o encodeURIComponent(q) \o
           <<"&type=text&page=", ToString(nextPage)>>
      [] type = "images" ->
           <<"/api/search?q=">> \o encodeURIComponent(q) \o
           <<"&type=images&max_results=", ToString(IMAGE_RESULTS_PER_PAGE),
             "&page=", ToString(nextPage)>>
      [] type = "videos" ->
           <<"/api/search?q=">> \o encodeURIComponent(q) \o
           <<"&type=videos&max_results=", ToString(VIDEO_RESULTS_PER_PAGE),
             "&page=", ToString(nextPage)>>

\* the query a wrapper puts in its key and URLs
KeyQuery(r) ==
    IF r.type = "images" THEN combinedSearchQuery(r.q, TagsOf(r.tags)) ELSE r.q

\* the renders of the three results pages: only the image page reads tags
PageOneRequests ==
    {[type |-> "images", q |-> q, tags |-> t, page |-> 1] :
        q \in KeyQueries, t \in TagsParams}
    \cup {[type |-> ty, q |-> q, tags |-> NoTagsParam, page |-> 1] :
            ty \in {"text", "videos"}, q \in KeyQueries}

\* a results page is rendered for the search parameters of r
RenderPage(r) ==
    /\ r # keyRequest
    /\ keyRequest' = r
    /\ keyUrl' = CASE r.type = "text" -> textKey(r.q)
                    [] r.type = "images" -> imagesKey(KeyQuery(r))
                    [] r.type = "videos" -> videosKey(r.q)

\* loadMore of that page builds the URL of the next page
BuildLoadMoreUrl ==
    /\ keyUrl # <<>>
    /\ keyRequest.page < MaxKeyPage
    /\ keyRequest' = [keyRequest EXCEPT !.page = keyRequest.page + 1]
    /\ keyUrl' = LoadMoreUrl(keyRequest.type, KeyQuery(keyRequest), keyRequest.page + 1)

InitKeys ==
    /\ InitPage
    /\ InitPanel
    /\ kind = "image"
    /\ initialData = NoData
    /\ InitSug
    /\ InitKey
    /\ InitSide

(* SpecKey: the keys and URLs built as results pages are rendered for      *)
(* search parameters and their next pages are asked for.                   *)
NextKey ==
    /\ \/ \E r \in PageOneRequests : RenderPage(r)
       \/ BuildLoadMoreUrl
    /\ UNCHANGED <<pageVars, sugVars, sideVars, panelVars>>

SpecKey == InitKeys /\ [][NextKey]_vars

----------------------------------------------------------------------------
(* Side panel: related keywords and instant answer, fetched by the page    *)
(* component on the server and by two more useSWR hooks in the wrapper     *)

\* how a server-side fetch ends: response ok and read, response not ok, the
\* fetch rejects, response ok but its body cannot be read as JSON
Outcomes == {"ok", "notok", "error", "badbody"}
SideKinds == {"text", "image"}
SsrKeywords == <<"kw_ssr">>
ApiKeywords == <<"kw_api">>

\* text/page.tsx: each of the three fetches in its own try/catch
TextSearchPage(q, hm, so, io, ao) ==
    [data |-> IF so = "ok" THEN Payload(q, 1, "ssr", hm) ELSE NoData,
     errorMessage |-> IF so = "ok" THEN "none" ELSE "failed",
     instantAnswer |-> IF io = "ok" THEN "ssr" ELSE "none",
     relatedKeywords |-> IF ao = "ok" THEN SsrKeywords ELSE <<>>,
     threw |-> FALSE]

\* image/page.tsx: Promise.allSettled of the two fetches, then .json() of
\* each fulfilled ok response, outside any try
ImageSearchPage(q, hm, so, ao) ==
    [data |-> IF so = "ok" THEN Payload(q, 1, "ssr", hm) ELSE NoData,
     errorMessage |-> IF so \in {"ok", "badbody"} THEN "none" ELSE "failed",
     instantAnswer |-> "none",
     relatedKeywords |-> IF ao = "ok" THEN SsrKeywords ELSE <<>>,
     threw |-> so = "badbody" \/ ao = "badbody"]

SearchPage(k, q, hm, so, io, ao) ==
    IF k = "text" THEN TextSearchPage(q, hm, so, io, ao)
    ELSE ImageSearchPage(q, hm, so, ao)

\* the hooks of the side panel on key q: a request is started when the hook
\* has neither fallback data nor cached data (revalidateOnMount: !initial...)
SideMount(k, q, p, c) ==
    {[key |-> q, src |-> "instant"] :
        x \in {1} \cap (IF k = "text" /\ p.instantAnswer = "none" /\ c[q].instant = "none"
                       THEN {1} ELSE {})}
    \cup {[key |-> q, src |-> "autocomplete"] :
            x \in {1} \cap (IF p.relatedKeywords = <<>> /\ c[q].autocomplete = "none"
                           THEN {1} ELSE {})}

\* related and activeInstantAnswer of the wrapper
related ==
    IF sideCache[query].autocomplete = "api" THEN ApiKeywords ELSE initialKeywords
activeInstantAnswer ==
    IF sideCache[query].instant = "api" THEN "api" ELSE initialInstantAnswer

\* the first render of a results page and the mount of its wrapper
InitSidePanel ==
    /\ InitPage
    /\ InitPanel
    /\ kind \in SideKinds
    /\ InitSug
    /\ InitKey
    /\ sideCache = [k \in Queries |-> [instant |-> "none", autocomplete |-> "none"]]
    /\ \E so, io, ao \in Outcomes :
         LET p == SearchPage(kind, query, initialData.has_more, so, io, ao)
         IN /\ p.data = initialData
            /\ kind = "image" => io = "error"
            /\ serverOutcomes = [search |-> so, instant |-> io, autocomplete |-> ao]
            /\ errorMessage = p.errorMessage
            /\ initialKeywords = p.relatedKeywords
            /\ initialInstantAnswer = p.instantAnswer
            /\ renderFailed = p.threw
            /\ sideRequests = IF p.threw THEN {} ELSE SideMount(kind, query, p, sideCache)

\* the page is requested for another query: the page component runs on the
\* server and the wrapper gets its new props
NavigateSide(q, hm, so, io, ao) ==
    LET p == SearchPage(kind, q, hm, so, io, ao)
    IN /\ q # query
       /\ kind = "image" => io = "error"
       /\ serverOutcomes' = [search |-> so, instant |-> io, autocomplete |-> ao]
       /\ renderFailed' = p.threw
       /\ IF p.threw
          THEN UNCHANGED <<pageVars, errorMessage, initialKeywords,
                           initialInstantAnswer, sideCache, sideRequests>>
          ELSE /\ Navigate(q, p.data)
               /\ errorMessage' = p.errorMessage
               /\ initialKeywords' = p.relatedKeywords
               /\ initialInstantAnswer' = p.instantAnswer
               /\ sideRequests' = sideRequests \cup SideMount(kind, q, p, sideCache)
               /\ sideCache' = sideCache

\* the fetcher of a side request resolves
SideSuccess(r) ==
    /\ r \in sideRequests
    /\ sideRequests' = sideRequests \ {r}
    /\ sideCache' = [sideCache EXCEPT ![r.key][r.src] = "api"]
    /\ UNCHANGED <<pageVars, errorMessage, initialKeywords, initialInstantAnswer,
                   serverOutcomes, renderFailed>>

\* the fetcher of a side request throws: shouldRetryOnError: false
SideFailure(r) ==
    /\ r \in sideRequests
    /\ sideRequests' = sideRequests \ {r}
    /\ UNCHANGED <<kind, query, initialData, allResults, currentPage, hasMore,
                   loadingMore, loadMoreError, retryCountRef, exhausted, timers,
                   cache, fetchSlot, requests, loads,
                   gen, overlaps, errorMessage, initialKeywords,
                   initialInstantAnswer, sideCache, serverOutcomes, renderFailed>>

(* SpecSide: the results page with its side panel, without loadMore calls; *)
(* once the page component has thrown there is no wrapper left to act.     *)
NextSide ==
    /\ ~renderFailed
    /\ \/ /\ gen < MaxGen
          /\ \E q \in Queries, hm \in Page1Field, so, io, ao \in Outcomes :
                NavigateSide(q, hm, so, io, ao)
       \/ /\ \/ SwrSteps
             \/ \E r \in requests : r.retryCount < MaxChain /\ RequestFailure(r)
          /\ UNCHANGED sideVars
       \/ \E r \in sideRequests : SideSuccess(r)
       \/ \E r \in sideRequests : SideFailure(r)
    /\ UNCHANGED <<sugVars, keyVars, panelVars>>

SpecSide == InitSidePanel /\ [][NextSide]_vars

----------------------------------------------------------------------------
(* Properties *)

\* the identities of the items of a list, and of pages 1..n of query q
ItemKeys(list) == [i \in 1..Len(list) |-> <<list[i].q, list[i].p, list[i].n>>]
PagesUpTo(q, n) ==
    [i \in 1..(n * PageLen) |->
        <<q, ((i - 1) \div PageLen) + 1, ((i - 1) % PageLen) + 1>>]
IsPrefix(a, b) == Len(a) <= Len(b) /\ SubSeq(b, 1, Len(a)) = a

C2_StaleLoadDiscarded ==
    [][\A l \in loads :
         (l.gen # gen /\ query' = query /\ l \notin loads')
            => UNCHANGED <<allResults, currentPage, hasMore, loadingMore,
                           loadMoreError>>]_vars

\* C3: when a pair of suggestion fetches started for another input than the
\* current one resolves, suggestions and richSuggestions are left unchanged.
C3_StaleSuggestionsDiscarded ==
    [][\A p \in pairs :
         (p.q # input /\ p \notin pairs')
            => UNCHANGED <<suggestions, richSuggestions>>]_vars

C5_LoadRetryTerminates ==
    [][\A l \in loads :
         /\ (kind # "video" /\ LoadFailed(l)) =>
               /\ UNCHANGED <<allResults, currentPage, hasMore>>
               /\ l.sent \in 1..3
               /\ IF l.sent = 3
                  THEN /\ loads' = loads \ {l}
                       /\ loadMoreError'
                       /\ ~loadingMore'
                  ELSE /\ \E w \in loads' : w.id = l.id /\ w.pc = "wait" /\ w.sent = l.sent
                       /\ UNCHANGED <<loadMoreError, loadingMore>>
         /\ (kind # "video" /\ LoadRetry(l)) =>
               /\ UNCHANGED <<allResults, currentPage, hasMore, loadingMore,
                              loadMoreError>>
               /\ l.sent < 3]_vars

\* page 2 was loaded, then the call for page 3 failed three times
C5_Witness ==
    /\ kind # "video"
    /\ gen = 0
    /\ loadMoreError
    /\ ~loadingMore
    /\ loads = {}
    /\ currentPage = 2
    /\ ItemKeys(allResults) = PagesUpTo(query, 2)

\* C6: currentPage stays within 1..10, and from a state with currentPage =
\* 10 no loadMore call starts a load, even if hasMore is TRUE.
C6_CeilingRespected ==
    [][/\ currentPage \in 1..10
       /\ currentPage' \in 1..10
       /\ (currentPage = 10 => ~LoadMore)]_vars

\* the image wrapper on page 10 with hasMore still TRUE and no load running
C6_Witness ==
    /\ kind = "image"
    /\ currentPage = 10
    /\ hasMore
    /\ ~loadingMore
    /\ loads = {}

\* C7: applying a page whose response has has_more = false or no has_more
\* field leaves hasMore = FALSE, and while hasMore is FALSE no loadMore call
\* starts a load or changes any state.
C7_NoOpWhenNoMore ==
    [][/\ \A l \in loads, hm \in {"false", "none"} : LoadApplied(l, hm) => ~hasMore'
       /\ (~hasMore => ~LoadMore)]_vars

\* page 2 arrived without a has_more field: two pages stay two pages
C7_Witness ==
    /\ gen = 0
    /\ ~hasMore
    /\ ~loadingMore
    /\ loads = {}
    /\ currentPage = 2
    /\ ItemKeys(allResults) = PagesUpTo(query, 2)
    /\ allResults[Len(allResults)].of = "none"

C9_RetryPolicy ==
    [][/\ \A r \in requests :
            (r.key = query /\ RequestFailure(r)) =>
               IF r.retryCount + 1 < 20
               THEN /\ exhausted' = exhausted
                    /\ \E t \in timers' \ timers :
                          timers' = timers \cup {t} /\ t.delay = 2000
               ELSE exhausted' /\ timers' = timers
       /\ (exhausted /\ query' = query) =>
              (exhausted' /\ requests' \subseteq requests)]_vars

\* C10: every query change leaves retryCountRef = 0 and exhausted = FALSE,
\* and exhausted is then set only by the 20th failure of the retry chain
\* that this render of the query started.
C10_FreshBudget ==
    [][/\ (query' # query => retryCountRef' = 0 /\ ~exhausted')
       /\ (~exhausted /\ exhausted') =>
              \E r \in requests :
                  RequestFailure(r) /\ r.gen = gen /\ r.retryCount + 1 = 20]_vars

\* C11: once the query has changed, a retry timer of an earlier render (the
\* 2 s page-1 timer, the backoff wait of a loadMore call) issues no fetch when
\* it fires, and a retry chain of an earlier render sets none of exhausted,
\* retryCountRef and loadMoreError.
C11_StaleTimersStopped ==
    [][/\ \A t \in timers :
            (t.gen # gen /\ TimerFire(t)) => requests' = requests
       /\ \A l \in loads :
            (l.gen # gen /\ query' = query) =>
               /\ ~LoadRetry(l)
               /\ (LoadFailed(l) => loadMoreError' = loadMoreError)
       /\ \A r \in requests :
            (r.gen # gen /\ RequestFailure(r)) =>
               UNCHANGED <<exhausted, retryCountRef>>]_vars

\* C12: the fatal error is shown only when the page-1 retries are used up
\* (MAX_RETRIES failures counted) and there is no page-1 data; only a failing
\* page-1 request raises exhausted; a failing loadMore attempt, the last one
\* included, changes none of exhausted, retryCountRef, showFatalError and
\* allResults, and the last one sets loadMoreError.
C12_LoadFailureNotFatal ==
    [][/\ showFatalError' =>
            /\ retryCountRef' >= MAX_RETRIES
            /\ SwrData(cache', query', initialData') = NoData
       /\ (exhausted' /\ ~exhausted) => \E r \in requests : RequestFailure(r)
       /\ \A l \in loads :
            LoadFailed(l) =>
               /\ UNCHANGED <<exhausted, retryCountRef, allResults>>
               /\ showFatalError' = showFatalError
               /\ (l.attempt + 1 = Attempts(kind)) => loadMoreError']_vars

\* a loadMore call has used up its attempts: its error is raised, the items
\* of the pages loaded before are still there and nothing is fatal
C12_Witness ==
    /\ loadMoreError
    /\ ~loadingMore
    /\ loads = {}
    /\ Len(allResults) = 2 * PageLen
    /\ ~exhausted
    /\ ~showFatalError

\* C13: every change of the input replaces the pending debounce timer by a
\* new one for the new value; a pair of fetches is started only by the expiry
\* of the timer and only for the value the input has at that moment, so a
\* value that was replaced before its timer expired causes no fetch.
C13_Debounce ==
    [][/\ input' # input => debounce' = [on |-> TRUE, q |-> input']
       /\ debounce'.on => debounce'.q = input'
       /\ \A p \in pairs' \ pairs :
            (p.text = Pending /\ p.wiki = Pending) =>
               /\ debounce.on /\ ~debounce'.on
               /\ input' = input
               /\ p.q = input]_vars

\* a pair of fetches of an earlier value is in flight, the input has changed
\* since and the timer of the new value is pending
C13_Witness ==
    /\ debounce.on
    /\ debounce.q = input
    /\ Len(Trim(input)) >= 2
    /\ \E p \in pairs : p.q # input

\* C14: the step that changes the input to a value of trimmed length below 2
\* leaves both suggestion lists empty, and no pair of fetches is ever started
\* for such a value.
C14_ShortInputClears ==
    [][/\ (input' # input /\ Len(Trim(input')) < 2) =>
            suggestions' = <<>> /\ richSuggestions' = <<>>
       /\ \A p \in pairs' : Len(Trim(p.q)) >= 2]_vars

\* C15: when one fetch of a pair fails (network error or response not ok)
\* and the other succeeds, the pair publishes the empty list for the failed
\* source and the fetched list of the other source, whichever settles last;
\* no step of a pair touches exhausted or loadMoreError.
C15_SourceIsolation ==
    [][\A p \in pairs, o \in {"ok", "notok", "error"} :
         /\ (TextSettle(p, o) /\ o # "ok" /\ p.wiki = Settled(RichFor(p.q))) =>
               suggestions' = <<>> /\ richSuggestions' = RichFor(p.q)
         /\ (TextSettle(p, o) /\ o = "ok" /\ p.wiki = Settled(<<>>)) =>
               suggestions' = KeywordsFor(p.q) /\ richSuggestions' = <<>>
         /\ (WikiSettle(p, o) /\ o # "ok" /\ p.text = Settled(KeywordsFor(p.q))) =>
               suggestions' = KeywordsFor(p.q) /\ richSuggestions' = <<>>
         /\ (WikiSettle(p, o) /\ o = "ok" /\ p.text = Settled(<<>>)) =>
               suggestions' = <<>> /\ richSuggestions' = RichFor(p.q)
         /\ (TextSettle(p, o) \/ WikiSettle(p, o)) =>
               UNCHANGED <<exhausted, loadMoreError>>]_vars

\* the pair of the current input was published with its encyclopedia fetch
\* failed and its keyword fetch successful
C15_Witness ==
    /\ pairs = {}
    /\ ~debounce.on
    /\ suggestions = KeywordsFor(input)
    /\ richSuggestions = <<>>

\* C16 as stated, with its example: a hint is shown iff the dropdown is open,
\* the keyword list is not empty, the input is not blank and the top keyword
\* starts with the input ignoring case; the hint is what follows the first
\* |input| characters of the top keyword; input "ca" with cat, car, cap gives
\* the hint "at" and input "cal" gives none.
C16_GhostTextAsStated ==
    LET top == suggestions[1]
        starts ==
            /\ Len(input) <= Len(top)
            /\ \A i \in 1..Len(input) : LowerChar(top[i]) = LowerChar(input[i])
        shown ==
            /\ showSuggestions
            /\ suggestions # <<>>
            /\ \E i \in 1..Len(input) : input[i] # " "
            /\ starts
    IN /\ (ghostText # <<>>) <=> shown
       /\ shown =>
            GhostHint = [i \in 1..(Len(top) - Len(input)) |-> top[Len(input) + i]]
       /\ ~shown => GhostHint = <<>>
       /\ (showSuggestions /\ suggestions = CatCarCap) =>
            /\ input = <<"c", "a">> => GhostHint = <<"a", "t">>
            /\ input = <<"c", "a", "l">> => ghostText = <<>>

\* C16: a hint is shown iff the dropdown is open, the keyword list is not
\* empty, the input is not blank and the top keyword starts with the input
\* ignoring case; the hint is what follows the first |input| characters of
\* the top keyword; input "ca" with cat, car, cap gives the hint "t" and
\* input "cal" gives none.
C16_GhostText ==
    LET top == suggestions[1]
        starts ==
            /\ Len(input) <= Len(top)
            /\ \A i \in 1..Len(input) : LowerChar(top[i]) = LowerChar(input[i])
        shown ==
            /\ showSuggestions
            /\ suggestions # <<>>
            /\ \E i \in 1..Len(input) : input[i] # " "
            /\ starts
    IN /\ (ghostText # <<>>) <=> shown
       /\ shown =>
            GhostHint = [i \in 1..(Len(top) - Len(input)) |-> top[Len(input) + i]]
       /\ ~shown => GhostHint = <<>>
       /\ (showSuggestions /\ suggestions = CatCarCap) =>
            /\ input = <<"c", "a">> => GhostHint = <<"t">>
            /\ input = <<"c", "a", "l">> => ghostText = <<>>

\* the input is "Ca" in capitals, typed while cat, car, cap are on display:
\* the hint is "t"
C16_Witness ==
    /\ showSuggestions
    /\ suggestions = CatCarCap
    /\ input = <<"C", "a">>
    /\ debounce = [on |-> TRUE, q |-> input]
    /\ ghostText = <<"C", "a", "t">>
    /\ GhostHint = <<"t">>

\* C17: two image requests of the same query text and page whose tag lists
\* are permutations of each other get the same key, and so do a request
\* without tags parameter and one with an empty tags parameter.
C17_KeyCanonical ==
    [][LET a == keyRequest
           b == keyRequest'
           ta == TagsOf(a.tags)
           tb == TagsOf(b.tags)
           permuted ==
               /\ Len(ta) = Len(tb)
               /\ \A t \in {ta[i] : i \in 1..Len(ta)} \cup {tb[i] : i \in 1..Len(tb)} :
                     Cardinality({i \in 1..Len(ta) : ta[i] = t}) =
                     Cardinality({i \in 1..Len(tb) : tb[i] = t})
           emptyOrAbsent ==
               /\ a.tags \in {NoTagsParam, [present |-> TRUE, value |-> <<>>]}
               /\ b.tags \in {NoTagsParam, [present |-> TRUE, value |-> <<>>]}
       IN (/\ a.type = "images" /\ b.type = "images"
           /\ a.q = b.q /\ a.page = b.page
           /\ permuted \/ emptyOrAbsent) => keyUrl' = keyUrl]_vars

\* C18: two requests that differ in the result type, the query text, the set
\* of tags or the page number have different keys or URLs: no two different
\* (query, tag set) pairs share an image key, and the URL of page N > 1 is
\* not the page-1 key.
C18_KeyDistinct ==
    [][LET a == keyRequest
           b == keyRequest'
           TagSet(r) == {TagsOf(r.tags)[i] : i \in 1..Len(TagsOf(r.tags))}
           differ ==
               \/ a.type # b.type
               \/ Trim(a.q) # Trim(b.q)
               \/ TagSet(a) # TagSet(b)
               \/ a.page # b.page
       IN (differ /\ keyUrl # <<>> /\ keyUrl' # <<>>) => keyUrl' # keyUrl]_vars

\* C19: every fetch of search results is a request of the response cache
\* (page 1 and page N alike): no step starts a fetch that is held by a
\* loadMore call instead of the cache, and a page that a fetch brought back
\* is stored in the cache in the step that applies it.
C19_FetchesThroughCache ==
    [][/\ \A l \in loads' \ loads : l.pc # "fetch"
       /\ \A l \in loads, hm \in HasMoreField :
            LoadApplied(l, hm) => cache' # cache]_vars

\* C20: a failure of the autocomplete or of the instant-answer request never
\* raises an error. On the server: when the search fetch succeeded the page
\* is rendered, without errorMessage, whatever became of the two other
\* fetches. In the wrapper: the failure of a side request starts no retry,
\* leaves exhausted, retryCountRef, showFatalError, the timers, the page-1
\* requests and the results as they were, and the panel keeps what it showed.
C20_DegradedNeverRaises ==
    /\ [](serverOutcomes.search = "ok" => ~renderFailed /\ errorMessage = "none")
    /\ [][\A r \in sideRequests :
            SideFailure(r) =>
               /\ sideRequests' = sideRequests \ {r}
               /\ UNCHANGED <<exhausted, retryCountRef, timers, requests,
                              allResults, currentPage, hasMore, errorMessage>>
               /\ showFatalError' = showFatalError
               /\ related' = related
               /\ activeInstantAnswer' = activeInstantAnswer]_vars

\* C21: at most one loadMore call is in flight at any time, a page that is
\* applied is page currentPage + 1 of the current query (so no page number is
\* appended twice and page N comes after page N - 1), also when the query
\* changes during a load.
C21_SingleOrderedLoads ==
    [][/\ Cardinality(loads') <= 1
       /\ \A l \in loads, hm \in HasMoreField :
            LoadApplied(l, hm) => l.nextPage = currentPage + 1 /\ l.q = query]_vars

\* C22: a delivery of page-1 data by the cache, when a page N >= 2 of the
\* current query has been appended, removes and reorders none of the
\* accumulated items and does not move currentPage back.
C22_RedeliveryKeepsPages ==
    [][\A r \in requests, hm \in Page1Field :
         (/\ RequestSuccess(r, hm)
          /\ \E i \in 1..Len(allResults) :
                allResults[i].q = query /\ allResults[i].p >= 2) =>
            /\ IsPrefix(allResults, allResults')
            /\ currentPage' >= currentPage]_vars

\* C23: within one loadMore call the wait after the k-th failed attempt is
\* 1000 ms * 2^(k-1) (1 s, 2 s, 4 s), and after the last allowed attempt the
\* call ends without waiting.
C23_BackoffSchedule ==
    [][\A l \in loads :
         LoadFailed(l) =>
            LET k == l.attempt + 1
            IN IF k = Attempts(kind)
               THEN \A m \in loads' : m.id # l.id
               ELSE \E m \in loads' :
                      m.id = l.id /\ m.pc = "wait" /\ m.wait = 1000 * 2^(k - 1)]_vars

\* C24: a loadMore call of the video wrapper whose fetch fails is retried, up
\* to 3 attempts in total, before loadMoreError is set: the failure of a
\* first or second attempt leaves the call running and loadMoreError as it
\* was.
C24_VideoLoadRetried ==
    [][\A l \in loads :
         (kind = "video" /\ LoadFailed(l) /\ l.attempt + 1 < 3) =>
            /\ \E m \in loads' : m.id = l.id
            /\ loadMoreError' = loadMoreError]_vars

\* C25: loadMoreError becomes true only in the step in which a loadMore call
\* fails its last attempt; the start of a loadMore call and a query change
\* leave it false; a call that succeeds on its 2nd or 3rd attempt ends with
\* loadMoreError false and its page appended once.
C25_LoadErrorOfLatestLoad ==
    [][/\ (loadMoreError' /\ ~loadMoreError) =>
            \E l \in loads : LoadFailed(l) /\ l.attempt + 1 = Attempts(kind)
       /\ LoadMore => ~loadMoreError'
       /\ query' # query => ~loadMoreError'
       /\ \A l \in loads, hm \in HasMoreField :
            (LoadApplied(l, hm) /\ l.attempt >= 1) =>
               /\ ~loadMoreError'
               /\ allResults' =
                    allResults \o Results(Payload(l.q, l.nextPage, "api", hm))
               /\ \A m \in loads' : m.id # l.id]_vars

\* C26: the loading state and the fatal state are never shown together, the
\* fatal state is shown only when the retries are exhausted and there is no
\* page-1 data, and while page-1 data (cached or initial) is available
\* neither of the two is shown, whatever exhausted is.
C26_ViewStateConsistent ==
    /\ ~(showLoadingState /\ showFatalError)
    /\ showFatalError =>
          /\ exhausted
          /\ cache[query] = NoData
          /\ initialData = NoData
    /\ (cache[query] # NoData \/ initialData # NoData) =>
          ~showLoadingState /\ ~showFatalError

\* the retries are exhausted and page-1 data of the current query is there
C26_Witness ==
    /\ exhausted
    /\ cache[query] # NoData \/ initialData # NoData
    /\ ~showLoadingState /\ ~showFatalError

\* the inputs for which fetchSuggestions starts its two fetches
FetchedInputs == {q \in Inputs : Len(Trim(q)) >= 2}

\* C27: a source that never answers does not block the other one: once the
\* keyword fetch started for the current input has answered, its list is
\* eventually published (or the input changes), whether or not the
\* encyclopedia fetch of the pair ever settles, and the same with the two
\* sources exchanged.
C27_SourcesDoNotBlock ==
    \A q \in FetchedInputs :
        /\ (\E p \in pairs :
               /\ p.q = q /\ input = q
               /\ p.text = Settled(KeywordsFor(q)))
             ~> (suggestions = KeywordsFor(q) \/ input # q)
        /\ (\E p \in pairs :
               /\ p.q = q /\ input = q
               /\ p.wiki = Settled(RichFor(q)))
             ~> (richSuggestions = RichFor(q) \/ input # q)

\* C28: a submission, and a navigation that changes the search params, leave
\* the keyword list and the rich list empty and the dropdown hidden; from a
\* hidden dropdown with empty lists the two lists stay empty as long as the
\* input is not changed, so a fetch that was in flight at the navigation
\* does not fill them again. (In SpecNav the dropdown is hidden only before
\* the first input and from a navigation to the next change of the input.)
C28_NavigationClearsDropdown ==
    [][/\ (handleSearch \/ SearchParamsChanged) =>
            /\ suggestions' = <<>>
            /\ richSuggestions' = <<>>
            /\ ~showSuggestions'
       /\ (/\ ~showSuggestions
           /\ suggestions = <<>> /\ richSuggestions = <<>>
           /\ input' = input) =>
            suggestions' = <<>> /\ richSuggestions' = <<>>]_vars

\* C29: the selection of the image side panel is null or an index of
\* allResults in every reachable state; previous at index 0 and next at the
\* last index leave it unchanged; a change of the query sets it to null.
C29_SelectionValid ==
    /\ [](selectedIndex = NoSelection
           \/ (0 <= selectedIndex /\ selectedIndex < Len(allResults)))
    /\ [][/\ (onPrev /\ selectedIndex = 0) => selectedIndex' = selectedIndex
          /\ (onNext /\ selectedIndex = Len(allResults) - 1) =>
               selectedIndex' = selectedIndex
          /\ query' # query => selectedIndex' = NoSelection]_vars
====
